---- MODULE Spec2Model ----
(***************************************************************************)
(* State machine of the hex editor of src/src/index.tsx (lines 519-939):  *)
(* one byte buffer shown by two contentEditable grids ("hex", two         *)
(* characters per byte, and "ascii", one character per byte), the         *)
(* document's native selection, the clipboard, and the event handlers of  *)
(* GridEditor and HexEditor.                                               *)
(***************************************************************************)
EXTENDS Integers, Sequences, FiniteSets, TLC

\* ---------------------------------------------------------------- bounds
\* Buffer length of the editing specification (Spec).
EditLen == 3
\* Buffer length of the navigation specification (SpecNav): a full grid row
\* and a partial second one.
NavLen == 20

\* Largest buffer length of the selection round-trip specification (SpecSel).
SelLen == 3

\* Largest magnitude of the offsets of the snap specification (SpecSnap).
SnapMax == 32

\* Largest buffer length of the offset-node mapper specification (SpecMap).
MapLen == 6
TypeLen == 3

\* ------------------------------------------------------ program constants
HexCellSize == 2
AsciiCellSize == 1
RowCells == 16

VARIABLES
  array,      \* props.array: the byte buffer, array[i + 1] is byte i
  sel,        \* document.getSelection(): panel and the two DOM boundary points
  clipboard,  \* the clipboard's 'text/json' data
  last,       \* the event handled last: its inputs, the Selection it read,
              \* its updateByte calls and how it ended
  typed       \* the typing run in progress: its panel, the byte it started
              \* on, the buffer before it and the characters typed so far

vars == <<array, sel, clipboard, last, typed>>

Panels == {"hex", "ascii"}

cellSize(p) == IF p = "hex" THEN HexCellSize ELSE AsciiCellSize

Length == Len(array)

\* --------------------------------------------------------------- the DOM
\* A boundary point inside the text node of cell `node`, `offset` characters in.
Point(node, offset) == [node |-> node, offset |-> offset]

Points(p) == {Point(i, o) : i \in 0 .. Length - 1, o \in 0 .. cellSize(p)}

\* The event targets of a grid: the grid element itself or the span of a cell.
Grid == [kind |-> "grid", index |-> 0]
Cell(i) == [kind |-> "cell", index |-> i]
TextNode(i) == [kind |-> "text", index |-> i]

\* element.childNodes: the grid holds one span per byte, a span one text node.
childNodes(element) ==
  IF element.kind = "grid" THEN [k \in 1 .. Length |-> Cell(k - 1)]
  ELSE IF element.kind = "cell" THEN <<TextNode(element.index)>>
  ELSE <<>>

\* node.textContent.length: props.render yields cellSize characters per byte.
contentLength(p, node) == cellSize(p)

\* ------------------------------------------------------- snap arithmetic
\* Mutant of floorSnap: the quotient truncated toward zero (value / floor | 0).
floorSnapTrunc(value, floor) ==
  IF value >= 0 THEN (value \div floor) * floor ELSE (0 - ((0 - value) \div floor)) * floor

floorSnap(value, floor) == (value \div floor) * floor

ceilSnap(value, ceil) == (0 - ((0 - value) \div ceil)) * ceil

\* ---------------------------------------------------- offset-node mapper
NotFound == [found |-> FALSE, node |-> 0, offset |-> 0]

RECURSIVE getNodeAndOffsetAtIndex(_, _, _)
RECURSIVE forNodes(_, _, _, _, _)

\* Mutant of forNodes: the in-node offset taken from the accumulator after
\* the node, without giving the node's own length back.
RECURSIVE forNodesOffset(_, _, _, _, _)
forNodesOffset(p, nodes, k, accumulator, index) ==
  IF k > Len(nodes) THEN NotFound
  ELSE LET acc == accumulator + contentLength(p, nodes[k])
       IN IF acc >= index
          THEN LET offset == index - acc
               IN IF nodes[k].kind = "text"
                  THEN [found |-> TRUE, node |-> nodes[k].index, offset |-> offset]
                  ELSE getNodeAndOffsetAtIndex(p, nodes[k], offset)
          ELSE forNodesOffset(p, nodes, k + 1, acc, index)

\* Mutant of forNodes: the search made with accumulator > index.
RECURSIVE forNodesStrict(_, _, _, _, _)
forNodesStrict(p, nodes, k, accumulator, index) ==
  IF k > Len(nodes) THEN NotFound
  ELSE LET acc == accumulator + contentLength(p, nodes[k])
       IN IF acc > index
          THEN LET offset == index - (acc - contentLength(p, nodes[k]))
               IN IF nodes[k].kind = "text"
                  THEN [found |-> TRUE, node |-> nodes[k].index, offset |-> offset]
                  ELSE getNodeAndOffsetAtIndex(p, nodes[k], offset)
          ELSE forNodesStrict(p, nodes, k + 1, acc, index)

\* The for loop of getNodeAndOffsetAtIndex from child k on.
forNodes(p, nodes, k, accumulator, index) ==
  IF k > Len(nodes) THEN NotFound
  ELSE LET acc == accumulator + contentLength(p, nodes[k])
       IN IF acc >= index
          THEN LET offset == index - (acc - contentLength(p, nodes[k]))
               IN IF nodes[k].kind = "text"
                  THEN [found |-> TRUE, node |-> nodes[k].index, offset |-> offset]
                  ELSE getNodeAndOffsetAtIndex(p, nodes[k], offset)
          ELSE forNodes(p, nodes, k + 1, acc, index)

getNodeAndOffsetAtIndex(p, element, index) ==
  forNodes(p, childNodes(element), 1, 0, index)

\* ------------------------------------------------------- selection state
\* range.toString().length of the range from the start of panel p's grid to
\* a boundary point of the selection s. The hex grid precedes the ascii grid
\* in the document: a point in a later grid adds the whole text before it, a
\* point in an earlier grid collapses the range.
rangeLength(p, s, point) ==
  IF s.panel = p THEN point.node * cellSize(p) + point.offset
  ELSE IF p = "hex" THEN Length * cellSize("hex") + point.node * cellSize("ascii") + point.offset
  ELSE 0

\* Mutant of SelectionOffsets: start and end taken for anchor and focus, as if
\* every selection were a forward one.
SelectionOffsetsForward(anchor, focus) ==
  [start |-> anchor, end |-> focus, anchor |-> anchor, focus |-> focus]

SelectionOffsets(anchor, focus) ==
  [start |-> IF anchor < focus THEN anchor ELSE focus,
   end |-> IF anchor > focus THEN anchor ELSE focus,
   anchor |-> anchor,
   focus |-> focus]

getSelectionOf(p, s) ==
  IF s.panel = "none" THEN [start |-> 0, end |-> 0, anchor |-> 0, focus |-> 0]
  ELSE SelectionOffsets(rangeLength(p, s, s.anchor), rangeLength(p, s, s.focus))

getSelection(p) == getSelectionOf(p, sel)

\* An offset a Range or Selection accepts for a text node of panel p; any
\* other one (a negative number read as unsigned long) is an IndexSizeError.
validOffset(p, offset) == offset >= 0 /\ offset <= cellSize(p)

\* The optional focus of select: given.
Some(v) == [defined |-> TRUE, value |-> v]

\* The steps of select once both offsets went through the mapper: a throw
\* while placing the anchor leaves the selection alone; selection.empty() and
\* addRange() then collapse it at the anchor, and a throw while resolving or
\* extending to the focus leaves it there.
selectResolved(p, resultAnchor, focusDefined, resultFocus) ==
  IF ~resultAnchor.found THEN [sel |-> sel, err |-> "NotFound", called |-> TRUE]
  ELSE IF ~validOffset(p, resultAnchor.offset)
    THEN [sel |-> sel, err |-> "IndexSizeError", called |-> TRUE]
  ELSE IF ~focusDefined
    THEN [sel |-> [panel |-> p, anchor |-> Point(resultAnchor.node, resultAnchor.offset),
                   focus |-> Point(resultAnchor.node, resultAnchor.offset)],
          err |-> "none", called |-> TRUE]
  ELSE IF ~resultFocus.found
    THEN [sel |-> [panel |-> p, anchor |-> Point(resultAnchor.node, resultAnchor.offset),
                   focus |-> Point(resultAnchor.node, resultAnchor.offset)],
          err |-> "NotFound", called |-> TRUE]
  ELSE IF ~validOffset(p, resultFocus.offset)
    THEN [sel |-> [panel |-> p, anchor |-> Point(resultAnchor.node, resultAnchor.offset),
                   focus |-> Point(resultAnchor.node, resultAnchor.offset)],
          err |-> "IndexSizeError", called |-> TRUE]
  ELSE [sel |-> [panel |-> p, anchor |-> Point(resultAnchor.node, resultAnchor.offset),
                 focus |-> Point(resultFocus.node, resultFocus.offset)],
        err |-> "none", called |-> TRUE]

\* The optional focus of select: left out.
None == [defined |-> FALSE, value |-> 0]

\* Mutant of select: the focus set as the end of the range (range.setEnd)
\* instead of by selection.extend, which collapses a backward selection.
selectBySetEnd(p, element, anchor, focus) ==
  selectResolved(p,
                 getNodeAndOffsetAtIndex(p, element,
                                         IF focus.defined /\ focus.value < anchor
                                         THEN focus.value ELSE anchor),
                 focus.defined,
                 IF focus.defined THEN getNodeAndOffsetAtIndex(p, element, focus.value)
                 ELSE NotFound)

\* select(element, {anchor, focus}): the selection afterwards and the
\* exception that ended it, if any.
select(p, element, anchor, focus) ==
  selectResolved(p, getNodeAndOffsetAtIndex(p, element, anchor), focus.defined,
                 IF focus.defined THEN getNodeAndOffsetAtIndex(p, element, focus.value)
                 ELSE NotFound)

\* A handler path that never calls select.
noSelect == [sel |-> sel, err |-> "none", called |-> FALSE]

\* ------------------------------------------------------- grid navigation
\* Mutant of extendHorizontal: the strict bounds that moveVertical uses.
extendHorizontalStrict(p, selection, direction, focus) ==
  IF focus = selection.anchor
  THEN select(p, Grid, selection.focus, Some(focus + cellSize(p) * direction))
  ELSE IF (IF direction = -1 THEN focus > 0 ELSE focus < Length * cellSize(p))
  THEN select(p, Grid, selection.anchor, Some(focus))
  ELSE noSelect

\* onArrowHorizontal with shift held: the focus moves by one cell; a focus
\* that lands on the anchor swaps the roles and moves one cell further.
extendHorizontal(p, selection, direction, focus) ==
  IF focus = selection.anchor
  THEN select(p, Grid, selection.focus, Some(focus + cellSize(p) * direction))
  ELSE IF (IF direction = -1 THEN focus >= 0 ELSE focus <= Length * cellSize(p))
  THEN select(p, Grid, selection.anchor, Some(focus))
  ELSE noSelect

\* Mutant of moveHorizontal: the strict bounds that moveVertical uses.
moveHorizontalStrict(p, selection, direction, start, end) ==
  IF direction = -1
  THEN IF start > 0 THEN select(p, Grid, start, Some(start + cellSize(p))) ELSE noSelect
  ELSE IF end < Length * cellSize(p) THEN select(p, Grid, end - cellSize(p), Some(end))
  ELSE noSelect

\* onArrowHorizontal without shift: the cell before start, or the cell at end.
moveHorizontal(p, selection, direction, start, end) ==
  IF direction = -1
  THEN IF start >= 0 THEN select(p, Grid, start, Some(start + cellSize(p))) ELSE noSelect
  ELSE IF end <= Length * cellSize(p) THEN select(p, Grid, end - cellSize(p), Some(end))
  ELSE noSelect

onArrowHorizontal(p, shiftKey, selection, direction) ==
  IF shiftKey
  THEN extendHorizontal(p, selection, direction,
                        floorSnap(selection.focus, cellSize(p)) + cellSize(p) * direction)
  ELSE moveHorizontal(p, selection, direction,
                      floorSnap(selection.start, cellSize(p)) - cellSize(p),
                      floorSnap(selection.end, cellSize(p)) + cellSize(p))

\* shouldFlip of onArrowVertical: the anchor lies strictly between the old
\* focus and the new one.
shouldFlipInclusive(selection, focus) ==
  \/ (selection.anchor < selection.focus /\ selection.anchor >= focus)
  \/ (selection.anchor > selection.focus /\ selection.anchor <= focus)

shouldFlip(selection, focus) ==
  \/ (selection.anchor < selection.focus /\ selection.anchor > focus)
  \/ (selection.anchor > selection.focus /\ selection.anchor < focus)

\* Mutant of extendVertical: a crossing makes the old focus the new anchor.
extendVerticalOldFocus(p, selection, direction, focus) ==
  IF (IF direction = -1 THEN focus >= 0 ELSE focus <= Length * cellSize(p))
  THEN select(p, Grid,
              IF shouldFlip(selection, focus) THEN selection.focus ELSE selection.anchor,
              Some(IF shouldFlip(selection, focus) THEN focus + cellSize(p) * direction
                   ELSE focus))
  ELSE noSelect

\* onArrowVertical with shift held: the focus moves by one row.
extendVertical(p, selection, direction, focus) ==
  IF (IF direction = -1 THEN focus >= 0 ELSE focus <= Length * cellSize(p))
  THEN select(p, Grid,
              IF shouldFlip(selection, focus) THEN selection.anchor - cellSize(p) * direction
              ELSE selection.anchor,
              Some(IF shouldFlip(selection, focus) THEN focus + cellSize(p) * direction
                   ELSE focus))
  ELSE noSelect

\* onArrowVertical without shift: the cell one row above start, or one row
\* below end.
moveVertical(p, selection, direction, anchor, focus) ==
  IF direction = -1
  THEN IF anchor > 0 THEN select(p, Grid, anchor, Some(anchor + cellSize(p))) ELSE noSelect
  ELSE IF focus < Length * cellSize(p) THEN select(p, Grid, focus - cellSize(p), Some(focus))
  ELSE noSelect

onArrowVerticalUnscaled(p, shiftKey, selection, direction) ==
  IF shiftKey
  THEN extendVertical(p, selection, direction,
                      floorSnap(selection.focus, cellSize(p)) + RowCells * direction)
  ELSE moveVertical(p, selection, direction,
                    floorSnap(selection.start - RowCells, cellSize(p)),
                    floorSnap(selection.end + RowCells, cellSize(p)))

onArrowVertical(p, shiftKey, selection, direction) ==
  IF shiftKey
  THEN extendVertical(p, selection, direction,
                      floorSnap(selection.focus, cellSize(p)) + RowCells * cellSize(p) * direction)
  ELSE moveVertical(p, selection, direction,
                    floorSnap(selection.start - RowCells * cellSize(p), cellSize(p)),
                    floorSnap(selection.end + RowCells * cellSize(p), cellSize(p)))

\* ------------------------------------------------------------ the events
KeyCodes == {"ArrowLeft", "ArrowRight", "ArrowUp", "ArrowDown", "KeyA"}

ArrowCodes == {"ArrowLeft", "ArrowRight", "ArrowUp", "ArrowDown"}

NoEvent ==
  [op |-> "none", panel |-> "none", code |-> "", shiftKey |-> FALSE,
   data |-> [type |-> "null", chars |-> <<>>],
   pre |-> SelectionOffsets(0, 0), calls |-> <<>>, err |-> "none",
   seen |-> <<>>, selected |-> FALSE, scrolled |-> FALSE, prevented |-> FALSE]

\* Mutant of keyDownDone: preventDefault called before the switch, for every key.
keyDownDonePreventAll(p, code, shiftKey, selection, r) ==
  /\ sel' = r.sel
  /\ last' = [NoEvent EXCEPT !.op = "keydown", !.panel = p, !.code = code,
                             !.shiftKey = shiftKey, !.pre = selection,
                             !.err = r.err, !.selected = r.called,
                             !.scrolled = (code \in ArrowCodes /\ r.err = "none"),
                             !.prevented = TRUE]

\* What a key-down handler leaves: the selection, and the record of the event.
keyDownDone(p, code, shiftKey, selection, r) ==
  /\ sel' = r.sel
  /\ last' = [NoEvent EXCEPT !.op = "keydown", !.panel = p, !.code = code,
                             !.shiftKey = shiftKey, !.pre = selection,
                             !.err = r.err, !.selected = r.called,
                             !.scrolled = (code \in ArrowCodes /\ r.err = "none"),
                             !.prevented = (code \in ArrowCodes)]

keyDownSwitch(p, code, shiftKey, selection) ==
  keyDownDone(p, code, shiftKey, selection,
              CASE code = "ArrowLeft" -> onArrowHorizontal(p, shiftKey, selection, -1)
                [] code = "ArrowRight" -> onArrowHorizontal(p, shiftKey, selection, 1)
                [] code = "ArrowUp" -> onArrowVertical(p, shiftKey, selection, -1)
                [] code = "ArrowDown" -> onArrowVertical(p, shiftKey, selection, 1)
                [] OTHER -> noSelect)

\* onKeyDown of panel p: the four arrow codes are default-prevented, handled
\* and followed by scrollToSelection; a throw in the handler skips the scroll.
onKeyDown(p, code, shiftKey) ==
  /\ sel.panel = p
  /\ keyDownSwitch(p, code, shiftKey, getSelection(p))
  /\ UNCHANGED <<array, clipboard, typed>>

\* The elements a pointer-up over panel p can have as event.target: the grid
\* itself (the free space of a partial last row) or the span under the
\* pointer, which is a cell the focus of the native selection touches.
PointerTargets(p) ==
  {Grid} \cup {Cell(i) : i \in {j \in 0 .. Length - 1 :
                                 /\ j * cellSize(p) <= getSelection(p).focus
                                 /\ getSelection(p).focus <= (j + 1) * cellSize(p)}}

pointerUpDone(p, selection, r) ==
  /\ sel' = r.sel
  /\ last' = [NoEvent EXCEPT !.op = "pointerup", !.panel = p, !.pre = selection,
                             !.err = r.err, !.selected = r.called]

pointerUpBody(p, target, selection, start, end) ==
  pointerUpDone(p, selection,
                IF floorSnap(start, cellSize(p)) # floorSnap(end, cellSize(p))
                THEN select(p, Grid,
                            IF selection.anchor < selection.focus
                            THEN floorSnap(selection.anchor, cellSize(p))
                            ELSE ceilSnap(selection.anchor, cellSize(p)),
                            Some(IF selection.anchor > selection.focus
                                 THEN floorSnap(selection.focus, cellSize(p))
                                 ELSE ceilSnap(selection.focus, cellSize(p))))
                ELSE select(p, target, 0, Some(cellSize(p))))

pointerUpRead(p, target, selection) ==
  pointerUpBody(p, target, selection,
                IF selection.anchor < selection.focus THEN selection.anchor ELSE selection.focus,
                IF selection.anchor > selection.focus THEN selection.anchor ELSE selection.focus)

onPointerUp(p, target) ==
  /\ sel.panel = p
  /\ pointerUpRead(p, target, getSelection(p))
  /\ UNCHANGED <<array, clipboard, typed>>

\* ------------------------------------------------------- edit operations
\* Strings are sequences of character codes; event.data is a string or null.
Str(chars) == [type |-> "string", chars |-> chars]
Null == [type |-> "null", chars |-> <<>>]

\* String.prototype.toLowerCase on the codes of A-Z.
toLowerCase(chars) ==
  [k \in 1 .. Len(chars) |-> IF chars[k] >= 65 /\ chars[k] <= 90 THEN chars[k] + 32 ELSE chars[k]]

\* The character code of hex digit d, as i.toString(16) writes it.
digitCode(d) == IF d < 10 THEN 48 + d ELSE 87 + d

\* hexValues: the sixteen one-character strings "0" .. "f".
hexValues == {<<digitCode(d)>> : d \in 0 .. 15}

\* isHex(data), data being event.data?.toLowerCase(): a non-empty string that
\* is one of hexValues.
isHex(data) == data.type = "string" /\ data.chars # <<>> /\ toLowerCase(data.chars) \in hexValues

\* isAscii(char): a string whose charCodeAt(0) lies strictly between 32 and
\* 127 (charCodeAt(0) of the empty string is NaN).
isAscii(char) ==
  char.type = "string" /\ Len(char.chars) > 0 /\ char.chars[1] > 32 /\ char.chars[1] < 127

\* value.toString(16).padStart(2, '0'): the digits of a byte, most significant first.
RECURSIVE toString16(_)
toString16(value) ==
  IF value < 16 THEN <<digitCode(value)>>
  ELSE Append(toString16(value \div 16), digitCode(value % 16))

padStart2(chars) == IF Len(chars) < 2 THEN <<48>> \o chars ELSE chars

\* parseInt(chars, 16) of a string of hex digits.
RECURSIVE parseInt16(_)
parseInt16(chars) ==
  IF chars = <<>> THEN 0
  ELSE parseInt16(SubSeq(chars, 1, Len(chars) - 1)) * 16
       + (IF chars[Len(chars)] >= 97 THEN chars[Len(chars)] - 87 ELSE chars[Len(chars)] - 48)

\* onArrayUpdate of the host (README, dev/App.tsx): array[index] = value on a
\* Uint8Array, which drops a write outside 0 .. length - 1 and keeps value mod 256.
updateByte(arr, index, value) ==
  IF index >= 0 /\ index < Len(arr) THEN [arr EXCEPT ![index + 1] = value % 256] ELSE arr

\* One props.onArrayUpdate(index, value) call; batched tells whether it was
\* made inside batch().
Call(index, value) == [index |-> index, value |-> value, batched |-> FALSE]

\* Mutant of batch: the calls made one by one, outside any batch.
batchNone(calls) == calls

\* batch(() => ...) around the calls of a handler.
batch(calls) == [k \in 1 .. Len(calls) |-> [calls[k] EXCEPT !.batched = TRUE]]

\* The buffer after the updateByte calls of one handler, in order.
RECURSIVE applyCalls(_, _)
applyCalls(arr, calls) ==
  IF calls = <<>> THEN arr
  ELSE applyCalls(updateByte(arr, Head(calls).index, Head(calls).value), Tail(calls))

\* The buffers the host's observers (the renderer) are notified with while
\* the calls from the k-th on are made: a call outside a batch notifies at
\* once, the calls of a batch notify together when the batch ends.
RECURSIVE notifications(_, _, _)
notifications(arr, calls, k) ==
  IF k > Len(calls) THEN <<>>
  ELSE (IF ~calls[k].batched \/ k = Len(calls)
        THEN <<applyCalls(arr, SubSeq(calls, 1, k))>> ELSE <<>>)
       \o notifications(arr, calls, k + 1)

\* What an edit handler leaves: the buffer after its calls, the selection,
\* and the record of the event.
editDone(p, op, code, data, selection, calls, r) ==
  /\ array' = applyCalls(array, calls)
  /\ sel' = r.sel
  /\ last' = [NoEvent EXCEPT !.op = op, !.panel = p, !.code = code, !.data = data,
                             !.pre = selection, !.calls = calls, !.err = r.err,
                             !.seen = notifications(array, calls, 1),
                             !.selected = r.called, !.prevented = (op = "beforeinput")]

\* A handler ended by an exception before any select call.
thrown(err) == [sel |-> sel, err |-> err, called |-> FALSE]

\* Mutant of hexInsertWrite: the nibbles taken the other way round.
hexInsertWriteSwapped(p, selection, data, offset, index, hex) ==
  editDone(p, "beforeinput", "insertText", data, selection,
           <<Call(index, parseInt16(IF offset = 1
                                    THEN toLowerCase(data.chars) \o SubSeq(hex, 2, Len(hex))
                                    ELSE SubSeq(hex, 1, 1) \o toLowerCase(data.chars)))>>,
           IF floorSnap(selection.start + 1, 2) = selection.start
           THEN select(p, Grid, selection.start + 1, Some(selection.start + 2))
           ELSE select(p, Grid, selection.start + 1, Some(selection.start + 3)))

\* Mutant of hexInsertWrite: the selection always advanced to one nibble.
hexInsertWriteOneNibble(p, selection, data, offset, index, hex) ==
  editDone(p, "beforeinput", "insertText", data, selection,
           <<Call(index, parseInt16(IF offset = 0
                                    THEN toLowerCase(data.chars) \o SubSeq(hex, 2, Len(hex))
                                    ELSE SubSeq(hex, 1, 1) \o toLowerCase(data.chars)))>>,
           select(p, Grid, selection.start + 1, Some(selection.start + 2)))

\* onInsert of the hex panel.
hexInsertWrite(p, selection, data, offset, index, hex) ==
  editDone(p, "beforeinput", "insertText", data, selection,
           <<Call(index, parseInt16(IF offset = 0
                                    THEN toLowerCase(data.chars) \o SubSeq(hex, 2, Len(hex))
                                    ELSE SubSeq(hex, 1, 1) \o toLowerCase(data.chars)))>>,
           IF floorSnap(selection.start + 1, 2) = selection.start
           THEN select(p, Grid, selection.start + 1, Some(selection.start + 2))
           ELSE select(p, Grid, selection.start + 1, Some(selection.start + 3)))

hexInsertAt(p, selection, data, offset, index) ==
  IF index >= Length
  THEN editDone(p, "beforeinput", "insertText", data, selection, <<>>, thrown("TypeError"))
  ELSE hexInsertWrite(p, selection, data, offset, index, padStart2(toString16(array[index + 1])))

hexOnInsert(p, selection, data) ==
  IF ~isHex(data)
  THEN editDone(p, "beforeinput", "insertText", data, selection, <<>>, noSelect)
  ELSE hexInsertAt(p, selection, data, selection.start % 2, selection.start \div 2)

\* onInsert of the ascii panel.
asciiOnInsert(p, selection, data) ==
  IF isAscii(data)
  THEN editDone(p, "beforeinput", "insertText", data, selection,
                <<Call(selection.start, data.chars[1])>>,
                select(p, Grid, selection.start + 1, Some(selection.start + 2)))
  ELSE editDone(p, "beforeinput", "insertText", data, selection, <<>>, noSelect)

\* Mutant of deleteCalls: the loop run up to and including stop.
RECURSIVE deleteCallsInclusive(_, _)
deleteCallsInclusive(index, stop) ==
  IF index <= stop THEN <<Call(index, 0)>> \o deleteCallsInclusive(index + 1, stop) ELSE <<>>

\* The updateByte(index, 0) calls of the delete loop from index on.
RECURSIVE deleteCalls(_, _)
deleteCalls(index, stop) ==
  IF index < stop THEN <<Call(index, 0)>> \o deleteCalls(index + 1, stop) ELSE <<>>

InputTypes == {"insertText", "deleteContentBackward", "insertParagraph"}

beforeInputSwitch(p, inputType, data, selection) ==
  CASE inputType = "insertText" ->
         IF p = "hex" THEN hexOnInsert(p, selection, data) ELSE asciiOnInsert(p, selection, data)
    [] inputType = "deleteContentBackward" ->
         editDone(p, "beforeinput", inputType, data, selection,
                  batch(deleteCalls(selection.start \div cellSize(p),
                                    0 - ((0 - selection.end) \div cellSize(p)))),
                  select(p, Grid, selection.start, Some(selection.end)))
    [] OTHER -> editDone(p, "beforeinput", inputType, data, selection, <<>>, noSelect)

\* onBeforeInput of panel p: every input type is default-prevented.
onBeforeInput(p, inputType, data) ==
  /\ sel.panel = p
  /\ beforeInputSwitch(p, inputType, data, getSelection(p))
  /\ UNCHANGED <<clipboard, typed>>

\* ---------------------------------------------------------- the clipboard
\* Number.prototype.toString of a non-negative integer, as JSON.stringify writes it.
RECURSIVE decimal(_)
decimal(n) == IF n < 10 THEN <<48 + n>> ELSE Append(decimal(n \div 10), 48 + (n % 10))

\* The items of a JSON array text joined by commas.
RECURSIVE joinItems(_)
joinItems(values) ==
  IF values = <<>> THEN <<>>
  ELSE IF Len(values) = 1 THEN decimal(values[1])
  ELSE decimal(values[1]) \o <<44>> \o joinItems(Tail(values))

\* JSON.stringify(Array.from(array)): "[" items "]".
JSONstringify(values) == <<91>> \o joinItems(values) \o <<93>>

isDigits(chars) == chars # <<>> /\ \A k \in 1 .. Len(chars) : chars[k] >= 48 /\ chars[k] <= 57

\* A JSON number without fraction or exponent: an optional minus, then digits
\* with no leading zero.
isNumberText(chars) ==
  LET digits == IF chars # <<>> /\ chars[1] = 45 THEN Tail(chars) ELSE chars
  IN isDigits(digits) /\ (Len(digits) = 1 \/ digits[1] # 48)

RECURSIVE digitsValue(_)
digitsValue(chars) ==
  IF chars = <<>> THEN 0
  ELSE digitsValue(SubSeq(chars, 1, Len(chars) - 1)) * 10 + (chars[Len(chars)] - 48)

numberValue(chars) == IF chars[1] = 45 THEN 0 - digitsValue(Tail(chars)) ELSE digitsValue(chars)

\* The texts between the commas of chars.
RECURSIVE splitItems(_, _)
splitItems(chars, item) ==
  IF chars = <<>> THEN <<item>>
  ELSE IF Head(chars) = 44 THEN <<item>> \o splitItems(Tail(chars), <<>>)
  ELSE splitItems(Tail(chars), Append(item, Head(chars)))

parsedItems(items) ==
  IF \A k \in 1 .. Len(items) : isNumberText(items[k])
  THEN [ok |-> TRUE, isArray |-> TRUE, items |-> [k \in 1 .. Len(items) |-> numberValue(items[k])]]
  ELSE [ok |-> FALSE, isArray |-> FALSE, items |-> <<>>]

\* JSON.parse of the texts the clipboard can hold here: an array of integers,
\* a bare integer, "{}"; anything else (the empty string of an absent
\* 'text/json' entry included) is a SyntaxError.
JSONparse(chars) ==
  IF chars = <<>> THEN [ok |-> FALSE, isArray |-> FALSE, items |-> <<>>]
  ELSE IF chars = <<91, 93>> THEN [ok |-> TRUE, isArray |-> TRUE, items |-> <<>>]
  ELSE IF chars[1] = 91 /\ chars[Len(chars)] = 93
    THEN parsedItems(splitItems(SubSeq(chars, 2, Len(chars) - 1), <<>>))
  ELSE IF chars = <<123, 125>> \/ isNumberText(chars)
    THEN [ok |-> TRUE, isArray |-> FALSE, items |-> <<>>]
  ELSE [ok |-> FALSE, isArray |-> FALSE, items |-> <<>>]

\* Mutant of copyRead: the end of the slice rounded down.
copyReadFloor(p, selection) ==
  /\ clipboard' = JSONstringify(SubSeq(array, selection.start \div cellSize(p) + 1,
                                       selection.end \div cellSize(p)))
  /\ last' = [NoEvent EXCEPT !.op = "copy", !.panel = p, !.pre = selection, !.prevented = TRUE]

\* onCopy of panel p: the whole bytes the selection touches, as JSON.
copyRead(p, selection) ==
  /\ clipboard' = JSONstringify(SubSeq(array, selection.start \div cellSize(p) + 1,
                                       0 - ((0 - selection.end) \div cellSize(p))))
  /\ last' = [NoEvent EXCEPT !.op = "copy", !.panel = p, !.pre = selection, !.prevented = TRUE]

onCopy(p) ==
  /\ sel.panel = p
  /\ copyRead(p, getSelection(p))
  /\ UNCHANGED <<array, sel, typed>>

\* Mutant of pasteParsed: the items written one byte further on.
pasteParsedShifted(p, selection, index, data) ==
  IF ~data.ok
  THEN editDone(p, "paste", "", Null, selection, <<>>, thrown("SyntaxError"))
  ELSE IF ~data.isArray
  THEN editDone(p, "paste", "", Null, selection, <<>>, noSelect)
  ELSE editDone(p, "paste", "", Null, selection,
                batch([k \in 1 .. Len(data.items) |-> Call(index + k, data.items[k])]),
                select(p, Grid, index * cellSize(p),
                       Some(index * cellSize(p) + Len(data.items) * cellSize(p))))

\* onPaste of panel p.
pasteParsed(p, selection, index, data) ==
  IF ~data.ok
  THEN editDone(p, "paste", "", Null, selection, <<>>, thrown("SyntaxError"))
  ELSE IF ~data.isArray
  THEN editDone(p, "paste", "", Null, selection, <<>>, noSelect)
  ELSE editDone(p, "paste", "", Null, selection,
                batch([k \in 1 .. Len(data.items) |-> Call(index + k - 1, data.items[k])]),
                select(p, Grid, index * cellSize(p),
                       Some(index * cellSize(p) + Len(data.items) * cellSize(p))))

\* Mutant of pasteRead: the selection start taken as the byte index.
pasteReadRaw(p, selection) ==
  pasteParsed(p, selection, selection.start, JSONparse(clipboard))

pasteRead(p, selection) ==
  pasteParsed(p, selection, selection.start \div cellSize(p), JSONparse(clipboard))

onPaste(p) ==
  /\ sel.panel = p
  /\ pasteRead(p, getSelection(p))
  /\ UNCHANGED <<clipboard, typed>>

\* ---------------------------------------------------- the specifications
\* The native selections the browser can leave in a panel (a click, a drag, a
\* shift-click): any two boundary points of the panel's text.
NativeSelections ==
  UNION {{[panel |-> p, anchor |-> a, focus |-> f] : a \in Points(p), f \in Points(p)} :
         p \in Panels}

\* No typing run is in progress.
NoTyping == [panel |-> "none", byte |-> 0, before |-> <<>>, chars |-> <<>>]

\* A buffer of NavLen bytes and any native selection; the arrow keys and the
\* pointer act on it.
InitNav ==
  /\ array = [i \in 1 .. NavLen |-> 0]
  /\ sel \in NativeSelections
  /\ clipboard = <<>>
  /\ last = NoEvent
  /\ typed = NoTyping

NextNav ==
  \/ \E p \in Panels : \E target \in PointerTargets(p) : onPointerUp(p, target)
  \/ \E p \in Panels : \E code \in KeyCodes : \E shiftKey \in BOOLEAN : onKeyDown(p, code, shiftKey)

SpecNav == InitNav /\ [][NextNav]_vars

\* What the user types into a panel (event.data): "0", " ", "0C", null.
TypedData == {Str(<<48>>), Str(<<32>>), Str(<<48, 67>>), Null}

\* event.data of a beforeinput event: the typed text of an insertText, null otherwise.
EventData(inputType) == IF inputType = "insertText" THEN TypedData ELSE {Null}

\* What another application can leave as 'text/json': nothing, "x", "7", "[48,0]".
ExternalClipboards == {<<>>, <<120>>, <<55>>, <<91, 52, 56, 44, 48, 93>>}

\* A buffer of EditLen bytes, any native selection and any foreign clipboard;
\* every handler of both panels acts on it.
Init ==
  /\ array = [i \in 1 .. EditLen |-> 0]
  /\ sel \in NativeSelections
  /\ clipboard \in ExternalClipboards
  /\ last = NoEvent
  /\ typed = NoTyping

Next ==
  \/ \E p \in Panels : \E target \in PointerTargets(p) : onPointerUp(p, target)
  \/ \E p \in Panels : \E code \in KeyCodes : \E shiftKey \in BOOLEAN : onKeyDown(p, code, shiftKey)
  \/ \E p \in Panels : \E inputType \in InputTypes : \E data \in EventData(inputType) :
       onBeforeInput(p, inputType, data)
  \/ \E p \in Panels : onCopy(p)
  \/ \E p \in Panels : onPaste(p)

Spec == Init /\ [][Next]_vars

\* The byte values of the buffers the editing contracts start from: 0x00 and 0xA5.
EditBytes == {0, 165}

\* What the user types in the editing contracts: "5", "C", " ", "0C", "\u00E9", null.
EditTyped == {Str(<<53>>), Str(<<67>>), Str(<<32>>), Str(<<48, 67>>), Str(<<233>>), Null}

EditData(inputType) == IF inputType = "insertText" THEN EditTyped ELSE {Null}

\* A click into panel p: the browser puts a caret at a boundary point of its
\* text; no handler of the editor runs.
nativeCaret(p, point) ==
  /\ sel' = [panel |-> p, anchor |-> point, focus |-> point]
  /\ last' = [NoEvent EXCEPT !.op = "caret", !.panel = p]
  /\ UNCHANGED <<array, clipboard, typed>>

\* Any buffer of EditLen bytes over EditBytes, any native selection and any
\* foreign clipboard; then one edit, or a copy, possibly a click, and a paste.
InitEdit ==
  /\ array \in [1 .. EditLen -> EditBytes]
  /\ sel \in NativeSelections
  /\ clipboard \in ExternalClipboards
  /\ last = NoEvent
  /\ typed = NoTyping

NextEdit ==
  \/ /\ last.op = "none"
     /\ \E p \in Panels : \E inputType \in InputTypes : \E data \in EditData(inputType) :
          onBeforeInput(p, inputType, data)
  \/ /\ last.op = "none"
     /\ \E p \in Panels : onCopy(p)
  \/ /\ last.op = "copy"
     /\ \E p \in Panels : \E point \in Points(p) : nativeCaret(p, point)
  \/ /\ last.op \in {"none", "copy", "caret"}
     /\ \E p \in Panels : onPaste(p)

SpecEdit == InitEdit /\ [][NextEdit]_vars

\* No selection in the document (rangeCount = 0).
NoSelection == [panel |-> "none", anchor |-> Point(0, 0), focus |-> Point(0, 0)]

\* The offsets a caller can hand to select: the valid ones and one beyond
\* each end.
WriteOffsets(p) == -1 .. Length * cellSize(p) + 1

\* select(grid of p, {anchor, focus}) called on whatever selection exists.
write(p, anchor, focus) ==
  /\ sel' = select(p, Grid, anchor, focus).sel
  /\ last' = [op |-> "select", panel |-> p, anchor |-> anchor, focus |-> focus,
              err |-> select(p, Grid, anchor, focus).err]
  /\ UNCHANGED <<array, clipboard, typed>>

\* A buffer of 1 .. SelLen bytes with any native selection or none; select is
\* called once with any offsets, with and without a focus.
InitSel ==
  /\ array \in {[i \in 1 .. n |-> 0] : n \in 1 .. SelLen}
  /\ sel \in NativeSelections \cup {NoSelection}
  /\ clipboard = <<>>
  /\ last = NoEvent
  /\ typed = NoTyping

NextSel ==
  /\ last.op = "none"
  /\ \E p \in Panels : \E anchor \in WriteOffsets(p) :
       \E focus \in {None} \cup {Some(f) : f \in WriteOffsets(p)} : write(p, anchor, focus)

SpecSel == InitSel /\ [][NextSel]_vars

\* floorSnap and ceilSnap applied to one offset and cell size.
snap(value, cell) ==
  /\ last' = [op |-> "snap", value |-> value, cell |-> cell,
              floor |-> floorSnap(value, cell), ceil |-> ceilSnap(value, cell)]
  /\ UNCHANGED <<array, sel, clipboard, typed>>

InitSnap ==
  /\ array = <<0>>
  /\ sel = NoSelection
  /\ clipboard = <<>>
  /\ last = NoEvent
  /\ typed = NoTyping

NextSnap ==
  \E value \in -SnapMax .. SnapMax : \E cell \in {AsciiCellSize, HexCellSize} : snap(value, cell)

SpecSnap == InitSnap /\ [][NextSnap]_vars

\* getNodeAndOffsetAtIndex applied to the grid of panel p and one offset.
locate(p, index) ==
  /\ last' = [op |-> "locate", panel |-> p, index |-> index,
              result |-> getNodeAndOffsetAtIndex(p, Grid, index)]
  /\ UNCHANGED <<array, sel, clipboard, typed>>

\* A buffer of 1 .. MapLen bytes; the mapper is asked for every offset of the
\* text and for those just beyond its ends.
InitMap ==
  /\ array \in {[i \in 1 .. n |-> 0] : n \in 1 .. MapLen}
  /\ sel = NoSelection
  /\ clipboard = <<>>
  /\ last = NoEvent
  /\ typed = NoTyping

NextMap ==
  \E p \in Panels : \E index \in -1 .. Length * cellSize(p) + 2 : locate(p, index)

SpecMap == InitMap /\ [][NextMap]_vars

\* The keys of a typing run: "5" and "C", a hex digit and a printable character both.
TypeKeys == {Str(<<53>>), Str(<<67>>)}

\* The native selections of panel p the panel reads as the whole cell of byte i.
WholeCells(p, i) ==
  {s \in NativeSelections :
     /\ s.panel = p
     /\ getSelectionOf(p, s).start = i * cellSize(p)
     /\ getSelectionOf(p, s).end = (i + 1) * cellSize(p)}

\* One key of the run: the beforeinput event of an insertText in panel p,
\* and the character joins the run.
typeKey(p, data) ==
  /\ sel.panel = p
  /\ typed.panel = p
  /\ Len(typed.chars) < Length * cellSize(p)
  /\ beforeInputSwitch(p, "insertText", data, getSelection(p))
  /\ typed' = [typed EXCEPT !.chars = Append(@, data.chars[1])]
  /\ UNCHANGED clipboard

\* Any buffer of TypeLen bytes over EditBytes with the whole cell of one byte
\* selected in one panel; then the keys of a run are typed into that panel,
\* at most one per character of its text.
InitType ==
  /\ array \in [1 .. TypeLen -> EditBytes]
  /\ \E p \in Panels : \E i \in 0 .. TypeLen - 1 :
       /\ sel \in WholeCells(p, i)
       /\ typed = [panel |-> p, byte |-> i, before |-> array, chars |-> <<>>]
  /\ clipboard = <<>>
  /\ last = NoEvent

NextType ==
  \E p \in Panels : \E data \in TypeKeys : typeKey(p, data)

SpecType == InitType /\ [][NextType]_vars

\* ------------------------------------------------------------ properties
\* The Selection the panel holding the selection reads now.
cur == getSelection(sel.panel)

\* The cell size of the panel that handled the last event, and its text length.
cs == cellSize(last.panel)
Total == Length * cs

Min(a, b) == IF a < b THEN a ELSE b
Max(a, b) == IF a > b THEN a ELSE b

\* Snap arithmetic as section 4.3 of the specification states it.
snapFloor(v, c) == c * (v \div c)
snapCeil(v, c) == c * ((v + c - 1) \div c)

Aligned(s) == s.anchor % cs = 0 /\ s.focus % cs = 0

\* The last event was a press of the arrow key `code`, with or without shift.
ArrowPress(code, shiftKey) ==
  last.op = "keydown" /\ last.code = code /\ last.shiftKey = shiftKey

Horizontal == last.code \in {"ArrowLeft", "ArrowRight"}
d == IF last.code \in {"ArrowLeft", "ArrowUp"} THEN -1 ELSE 1
step == IF Horizontal THEN cs ELSE RowCells * cs

\* The target of an extending move: the snapped focus moved by one step.
t == snapFloor(last.pre.focus, cs) + d * step

Between(a, x, y) == (x < a /\ a < y) \/ (y < a /\ a < x)

\* An extending move crosses the anchor: a horizontal step when its target
\* lands on the anchor, a vertical step when the anchor lies strictly between
\* the old focus and the target.
Crosses ==
  IF Horizontal THEN t = last.pre.anchor ELSE Between(last.pre.anchor, last.pre.focus, t)

\* The cell a non-extending move goes to, as a cell index: the cell before the
\* one containing start, the cell at the floor-snapped end, the cell one row
\* above the one containing start, the cell one row below the last selected one.
MoveCell ==
  CASE last.code = "ArrowLeft" -> (last.pre.start \div cs) - 1
    [] last.code = "ArrowRight" -> last.pre.end \div cs
    [] last.code = "ArrowUp" -> (last.pre.start \div cs) - RowCells
    [] OTHER -> (snapCeil(last.pre.end, cs) \div cs) - 1 + RowCells

\* The anchor and the focus a move asks for.
MoveAnchor ==
  IF last.shiftKey THEN (IF Crosses THEN last.pre.focus ELSE last.pre.anchor)
  ELSE MoveCell * cs

MoveFocus ==
  IF last.shiftKey THEN (IF Crosses THEN t + d * cs ELSE t)
  ELSE MoveCell * cs + cs

OutOfRange(x) == x < 0 \/ x > Total

\* C1: in every reachable state the Selection a panel reads has
\* start = min(anchor, focus), end = max(anchor, focus) and
\* 0 <= start <= end <= N * cellSize.
C1_SelectionInvariant ==
  /\ cur.start = Min(cur.anchor, cur.focus)
  /\ cur.end = Max(cur.anchor, cur.focus)
  /\ 0 <= cur.start /\ cur.start <= cur.end
  /\ cur.end <= Length * cellSize(sel.panel)

\* C1 witness: an extending arrow press has left a backward selection that
\* reaches offset 0.
C1_Witness ==
  /\ last.op = "keydown" /\ last.shiftKey /\ last.err = "none"
  /\ cur # last.pre
  /\ cur.focus = 0 /\ cur.anchor > 0

\* C2: every handler is all-or-nothing: a handler that did not run to its end
\* (it threw) has called updateByte not once and has left the Selection as it was.
C2_AllOrNothing ==
  (last.op \in {"keydown", "pointerup", "beforeinput", "paste"} /\ last.err # "none")
    => (last.calls = <<>> /\ cur = last.pre)

\* C3: every updateByte(index, value) call has 0 <= index <= N - 1 and a value
\* in 0 .. 255, and the buffer keeps its N unsigned 8-bit elements.
C3_UpdateByteInRange ==
  /\ \A k \in 1 .. Len(last.calls) :
        /\ 0 <= last.calls[k].index /\ last.calls[k].index <= Length - 1
        /\ last.calls[k].value \in 0 .. 255
  /\ Length = EditLen
  /\ \A i \in 1 .. Length : array[i] \in 0 .. 255

\* C4: no handler ends in the mapper's NotFound failure.
C4_NotFoundUnreachable == last.err # "NotFound"

\* C5: an arrow press whose move would place the anchor or the focus below 0
\* or above N * cellSize leaves the Selection exactly as it was.
C5_BoundarySaturation ==
  (last.op = "keydown" /\ last.code \in ArrowCodes
     /\ (OutOfRange(MoveAnchor) \/ OutOfRange(MoveFocus)))
    => cur = last.pre

\* C6: ArrowLeft without shift selects the whole cell before the cell containing
\* start, ArrowRight without shift the whole cell at the floor-snapped end (a
\* forward, cell-aligned selection one cell wide); when that cell does not
\* exist the Selection is unchanged.
C6_HorizontalMove ==
  (ArrowPress("ArrowLeft", FALSE) \/ ArrowPress("ArrowRight", FALSE))
    => IF MoveCell >= 0 /\ MoveCell <= Length - 1
       THEN /\ cur.start = MoveCell * cs /\ cur.end = cur.start + cs
            /\ last.err = "none"
       ELSE cur = last.pre

\* C6 witness: ArrowLeft without shift has replaced a selection that started
\* inside a cell by the cell before it.
C6_Witness ==
  /\ ArrowPress("ArrowLeft", FALSE)
  /\ last.pre.start % cs # 0 /\ last.pre.end > last.pre.start + cs
  /\ cur.start = snapFloor(last.pre.start, cs) - cs /\ cur.end = cur.start + cs

\* C7 (on cell-aligned, non-empty selections): ArrowUp without shift selects
\* the cell 16 cells before the cell containing start, ArrowDown without shift
\* the cell 16 cells after the last selected cell, whenever that cell index
\* lies in 0 .. N - 1; otherwise the Selection is unchanged.
C7_VerticalMove ==
  ((ArrowPress("ArrowUp", FALSE) \/ ArrowPress("ArrowDown", FALSE))
     /\ Aligned(last.pre) /\ last.pre.start < last.pre.end)
    => IF MoveCell >= 0 /\ MoveCell <= Length - 1
       THEN cur.start = MoveCell * cs /\ cur.end = cur.start + cs
       ELSE cur = last.pre

\* C8: an extending arrow press that does not cross the anchor and whose target
\* t lies in 0 .. N * cellSize keeps the anchor and sets the focus to t.
C8_ExtendKeepsAnchor ==
  (last.op = "keydown" /\ last.code \in ArrowCodes /\ last.shiftKey
     /\ ~Crosses /\ ~OutOfRange(t))
    => (cur.anchor = last.pre.anchor /\ cur.focus = t /\ last.err = "none")

\* C8 witness: Shift+ArrowDown has moved the focus of a selection that starts
\* inside a hex cell one row down, the anchor staying where it was.
C8_Witness ==
  /\ ArrowPress("ArrowDown", TRUE) /\ last.panel = "hex"
  /\ ~Crosses /\ ~OutOfRange(t)
  /\ last.pre.focus % cs # 0
  /\ cur.focus = t /\ cur.focus # last.pre.focus /\ cur.anchor = last.pre.anchor

\* C9 as claimed (on cell-aligned selections, for moves whose new focus stays
\* inside the buffer): an extending arrow press that crosses the anchor makes
\* the old focus the new anchor and puts the focus one cell past the target.
C9_FlipAnchorIsOldFocus ==
  (last.op = "keydown" /\ last.code \in ArrowCodes /\ last.shiftKey
     /\ Aligned(last.pre) /\ Crosses /\ ~OutOfRange(t + d * cs))
    => (cur.anchor = last.pre.focus /\ cur.focus = t + d * cs)

\* The anchor after a crossing: horizontally the old focus, vertically the old
\* anchor moved one cell against the direction of travel.
FlipAnchor == IF Horizontal THEN last.pre.focus ELSE last.pre.anchor - d * cs

\* C9 amended: an extending arrow press that crosses the anchor puts the focus
\* one cell past the target and the anchor at the old focus (horizontal) or
\* one cell against the direction of travel (vertical), provided both new
\* offsets lie in 0 .. N * cellSize.
C9_Flip ==
  (last.op = "keydown" /\ last.code \in ArrowCodes /\ last.shiftKey
     /\ Crosses /\ ~OutOfRange(t + d * cs) /\ ~OutOfRange(FlipAnchor))
    => (cur.anchor = FlipAnchor /\ cur.focus = t + d * cs /\ last.err = "none")

\* C9 witness: Shift+ArrowUp has crossed the anchor: the anchor moved one cell
\* down, the focus one cell above the target.
C9_Witness ==
  /\ ArrowPress("ArrowUp", TRUE) /\ Aligned(last.pre) /\ Crosses
  /\ cur.anchor = last.pre.anchor + cs /\ cur.focus = t - cs
  /\ cur.anchor # last.pre.focus

\* A Selection that a run of Shift+ArrowRight presses from one whole cell
\* passes through: cell-aligned, and forward and not empty or backward and one
\* cell wide.
InShiftRightRun(s) ==
  /\ s.anchor % cs = 0 /\ s.focus % cs = 0
  /\ (s.anchor < s.focus \/ s.anchor = s.focus + cs)

\* C10: in a run of Shift+ArrowRight presses from one whole cell, a press with
\* end < N * cellSize grows end by exactly one cell, and a press with
\* end = N * cellSize leaves the Selection unchanged.
C10_ShiftRightGrows ==
  (ArrowPress("ArrowRight", TRUE) /\ InShiftRightRun(last.pre))
    => IF last.pre.end < Total THEN cur.end = last.pre.end + cs
       ELSE cur = last.pre


\* ------------------------------------------------- properties of the edits
\* The step is an insertText handled by panel p.
InsertStep(p) ==
  last'.op = "beforeinput" /\ last'.code = "insertText" /\ last'.panel = p

\* One character in 0-9, a-f or A-F, and the digit it stands for.
ValidHex(data) ==
  /\ data.type = "string" /\ Len(data.chars) = 1
  /\ data.chars[1] \in (48 .. 57) \cup (97 .. 102) \cup (65 .. 70)

HexDigit(data) ==
  IF data.chars[1] <= 57 THEN data.chars[1] - 48
  ELSE IF data.chars[1] >= 97 THEN data.chars[1] - 87
  ELSE data.chars[1] - 55

\* The byte a hex insert of digit dd at selection start s makes of byte old.
NibbleValue(s, dd, old) ==
  IF s % 2 = 0 THEN 16 * dd + (old % 16) ELSE 16 * (old \div 16) + dd

\* The buffer arr with byte i set to v.
WithByte(arr, i, v) == [arr EXCEPT ![i + 1] = v]

\* C11: a valid hex insert at selection start s with i = floor(s/2) < N makes
\* exactly one updateByte(i, v) call, v being the old byte with its high
\* nibble (s even) or low nibble (s odd) replaced by the digit, and changes
\* no other byte.
C11_HexInsertNibble ==
  [][(InsertStep("hex") /\ ValidHex(last'.data) /\ last'.pre.start \div 2 < Length)
       => /\ Len(last'.calls) = 1
          /\ last'.calls[1].index = last'.pre.start \div 2
          /\ last'.calls[1].value
               = NibbleValue(last'.pre.start, HexDigit(last'.data),
                             array[last'.pre.start \div 2 + 1])
          /\ array' = WithByte(array, last'.calls[1].index, last'.calls[1].value)]_vars

\* C11 witness: "C" typed on the low nibble of 0xA5 has made the byte 0xAC.
C11_Witness ==
  /\ last.op = "beforeinput" /\ last.code = "insertText" /\ last.panel = "hex"
  /\ last.data = Str(<<67>>) /\ last.pre.start % 2 = 1
  /\ Len(last.calls) = 1 /\ last.calls[1].value = 172
  /\ array[last.calls[1].index + 1] = 172

\* The last event was a valid hex insert into an existing byte.
HexInserted ==
  /\ last.op = "beforeinput" /\ last.code = "insertText" /\ last.panel = "hex"
  /\ ValidHex(last.data) /\ last.pre.start \div 2 < Length

\* C12 as claimed (for inserts whose handler ran to its end): after a valid
\* hex insert at selection start s the Selection is {start: s+1, end: s+2}.
C12_AdvanceOneNibble ==
  (HexInserted /\ last.err = "none")
    => (cur.start = last.pre.start + 1 /\ cur.end = last.pre.start + 2)

\* C12 amended: after a valid hex insert at selection start s the Selection
\* is the low nibble {s+1, s+2} of the same byte when s is even, and the
\* whole next byte {s+1, s+3} when s is odd and a next byte exists.
C12_Advance ==
  (HexInserted /\ (last.pre.start % 2 = 0 \/ last.pre.start + 3 <= 2 * Length))
    => /\ last.err = "none"
       /\ cur.start = last.pre.start + 1
       /\ cur.end = IF last.pre.start % 2 = 0 THEN last.pre.start + 2 ELSE last.pre.start + 3

\* C12 witness: a digit typed at an odd offset has selected the whole next byte.
C12_Witness ==
  /\ HexInserted /\ last.pre.start % 2 = 1 /\ last.err = "none"
  /\ cur.start = last.pre.start + 1 /\ cur.end = last.pre.start + 3

\* One character with a code strictly between 32 and 127.
ValidAscii(data) ==
  data.type = "string" /\ Len(data.chars) = 1 /\ data.chars[1] > 32 /\ data.chars[1] < 127

\* C13: a valid ASCII insert of character code c at selection start s < N
\* makes exactly one updateByte(s, c) call, changes no other byte and leaves
\* the Selection on the single cell {start: s+1, end: s+2}.
C13_AsciiInsert ==
  [][(InsertStep("ascii") /\ ValidAscii(last'.data) /\ last'.pre.start < Length)
       => /\ Len(last'.calls) = 1
          /\ last'.calls[1].index = last'.pre.start
          /\ last'.calls[1].value = last'.data.chars[1]
          /\ array' = WithByte(array, last'.pre.start, last'.data.chars[1])
          /\ cur'.start = last'.pre.start + 1
          /\ cur'.end = last'.pre.start + 2]_vars


\* C14: an insert whose input is not valid for the panel (hex: not exactly one
\* character in 0-9a-fA-F; ascii: not exactly one character with a code
\* strictly between 32 and 127) makes no updateByte call, leaves the Selection
\* unchanged and raises no error.
C14_InvalidInsertNoOp ==
  (/\ last.op = "beforeinput" /\ last.code = "insertText"
   /\ \/ last.panel = "hex" /\ ~ValidHex(last.data)
      \/ last.panel = "ascii" /\ ~ValidAscii(last.data))
    => (last.calls = <<>> /\ cur = last.pre /\ last.err = "none")

\* The step is a backward-delete.
DeleteStep == last'.op = "beforeinput" /\ last'.code = "deleteContentBackward"

\* The byte range [floor(start/cellSize), ceil(end/cellSize)) of a Selection
\* read by panel p.
FirstByte(p, s) == s.start \div cellSize(p)
PastByte(p, s) == (s.end + cellSize(p) - 1) \div cellSize(p)

\* C15: a backward-delete with Selection [start, end) sets every byte with
\* index in [floor(start/cellSize), ceil(end/cellSize)) to 0, leaves every
\* other byte and the buffer length unchanged, and leaves the Selection with
\* the start and end it had.
C15_DeleteZeroFills ==
  [][DeleteStep
       => /\ array' = [i \in 1 .. Length |->
                         IF /\ FirstByte(last'.panel, last'.pre) <= i - 1
                            /\ i - 1 < PastByte(last'.panel, last'.pre)
                         THEN 0 ELSE array[i]]
          /\ cur'.start = last'.pre.start /\ cur'.end = last'.pre.end
          /\ last'.err = "none"]_vars

\* C15 witness: a delete over a mid-cell hex selection has zeroed two or more
\* bytes and kept a non-zero byte outside the range.
C15_Witness ==
  /\ last.op = "beforeinput" /\ last.code = "deleteContentBackward" /\ last.panel = "hex"
  /\ last.pre.start % 2 = 1 /\ Len(last.calls) >= 2
  /\ \A k \in 1 .. Len(last.calls) : array[last.calls[k].index + 1] = 0
  /\ \E i \in 1 .. Length : array[i] # 0
  /\ cur.start = last.pre.start /\ cur.end = last.pre.end

\* The bytes of arr with indices first .. past - 1.
Bytes(arr, first, past) == SubSeq(arr, first + 1, past)

\* C16: a copy with Selection [start, end) puts on the clipboard the bytes
\* with indices floor(start/cellSize) .. ceil(end/cellSize) - 1, in order, and
\* changes neither the buffer nor the Selection.
C16_CopyWholeBytes ==
  [][last'.op = "copy"
       => /\ JSONparse(clipboard').ok /\ JSONparse(clipboard').isArray
          /\ JSONparse(clipboard').items
               = Bytes(array, FirstByte(last'.panel, last'.pre), PastByte(last'.panel, last'.pre))
          /\ array' = array /\ sel' = sel]_vars

\* C16 witness: a copy of a hex selection that starts and ends mid-cell has
\* put "[165,0]" on the clipboard.
C16_Witness ==
  /\ last.op = "copy" /\ last.panel = "hex"
  /\ last.pre.start % 2 = 1 /\ last.pre.end % 2 = 1
  /\ clipboard = <<91, 49, 54, 53, 44, 48, 93>>

\* The step is a paste whose clipboard text parses to an array.
ArrayPasteStep ==
  last'.op = "paste" /\ JSONparse(clipboard).ok /\ JSONparse(clipboard).isArray

\* The items of the payload a paste step reads, and the byte index it starts at.
Payload == JSONparse(clipboard).items
PasteByte == FirstByte(last'.panel, last'.pre)

\* C17: a paste of the array payload p[0 .. len-1] with selection start s
\* writes p[j] to byte floor(s/cellSize) + j for every j, changes no other
\* byte, and leaves the Selection on the pasted range: start =
\* floor(s/cellSize) * cellSize, end = start + len * cellSize.
C17_PasteWrites ==
  [][ArrayPasteStep
       => /\ \A j \in 1 .. Len(Payload) :
                PasteByte + j <= Length /\ array'[PasteByte + j] = Payload[j]
          /\ \A i \in 1 .. Length :
                (i <= PasteByte \/ i > PasteByte + Len(Payload)) => array'[i] = array[i]
          /\ cur'.start = PasteByte * cellSize(last'.panel)
          /\ cur'.end = cur'.start + Len(Payload) * cellSize(last'.panel)]_vars

\* C18: a paste whose clipboard text cannot be parsed, is absent, or parses
\* to something that is not an array makes no updateByte call, leaves the
\* Selection unchanged and ends without an error.
C18_MalformedPasteIgnored ==
  (last.op = "paste" /\ ~(JSONparse(clipboard).ok /\ JSONparse(clipboard).isArray))
    => (last.calls = <<>> /\ cur = last.pre /\ last.err = "none")

\* The byte sequences a copy can take from the buffer.
ByteRanges == UNION {[1 .. n -> EditBytes] : n \in 0 .. Length}

\* C19: the payload round-trips: a paste of what a copy of the bytes b put on
\* the clipboard, at a byte index where b fits, makes the bytes from that
\* index on equal to b; and a paste right after a copy, at the same
\* Selection, leaves the whole buffer as it was.
C19_RoundTrip ==
  [][(last.op \in {"copy", "caret"} /\ last'.op = "paste")
       => /\ \A b \in ByteRanges :
                (clipboard = JSONstringify(b) /\ PasteByte + Len(b) <= Length)
                  => Bytes(array', PasteByte, PasteByte + Len(b)) = b
          /\ last.op = "copy" => array' = array]_vars

\* C19 witness: the bytes 0xA5, 0x00 copied in the hex panel have been pasted
\* in the ascii panel at byte 1.
C19_Witness ==
  /\ last.op = "paste" /\ last.panel = "ascii" /\ last.err = "none"
  /\ clipboard = <<91, 49, 54, 53, 44, 48, 93>>
  /\ last.pre.start = 1
  /\ Len(last.calls) = 2 /\ last.calls[1].index = 1 /\ last.calls[1].value = 165
  /\ array[2] = 165 /\ array[3] = 0

\* The last event was a backward-delete or a paste.
DeletedOrPasted ==
  \/ last.op = "paste"
  \/ last.op = "beforeinput" /\ last.code = "deleteContentBackward"

\* C20: a delete and a paste are each one unit of change: the observers of
\* the buffer are notified at most once, after the last write, and so with
\* the buffer as the whole operation leaves it.
C20_SingleUnitOfChange ==
  DeletedOrPasted
    => (Len(last.seen) <= 1 /\ \A k \in 1 .. Len(last.seen) : last.seen[k] = array)

\* C20 witness: a delete or a paste of two or more writes has notified once.
C20_Witness ==
  /\ DeletedOrPasted /\ Len(last.calls) >= 2
  /\ \A k \in 1 .. Len(last.calls) : last.calls[k].batched
  /\ last.seen = <<array>>

\* ------------------------------------- properties of the pure functions
\* The last step was select(grid of last.panel, {anchor, focus}) with both
\* offsets in 0 .. N * cellSize.
WroteValid ==
  /\ last.op = "select"
  /\ last.anchor \in 0 .. Total
  /\ last.focus.defined => last.focus.value \in 0 .. Total

\* The focus a write asks for: the anchor when none is given.
WrittenFocus == IF last.focus.defined THEN last.focus.value ELSE last.anchor

\* C21: for offsets in 0 .. N * cellSize, select({anchor: k}) followed by
\* getSelection gives start = end = anchor = focus = k, and select({anchor: a,
\* focus: f}) followed by getSelection gives anchor = a, focus = f, start =
\* min(a, f), end = max(a, f), forward and backward alike, whatever the
\* selection was before.
C21_WriteReadRoundTrip ==
  WroteValid
    => /\ last.err = "none"
       /\ getSelection(last.panel).anchor = last.anchor
       /\ getSelection(last.panel).focus = WrittenFocus
       /\ getSelection(last.panel).start = Min(last.anchor, WrittenFocus)
       /\ getSelection(last.panel).end = Max(last.anchor, WrittenFocus)

\* C21 witness: a backward selection from the end of the text to a cell
\* boundary inside it has been written and reads back.
C21_Witness ==
  /\ WroteValid /\ last.focus.defined
  /\ last.anchor = Total /\ last.focus.value = cs /\ cs < Total
  /\ getSelection(last.panel).anchor = Total /\ getSelection(last.panel).focus = cs

\* C22: pointer-up leaves a whole-cell selection that encloses the raw one:
\* when the raw start and end floor-snap to different cell boundaries, start
\* is floored, end is ceiled and the direction is kept; otherwise the
\* Selection is exactly one full cell. Start and end are multiples of cellSize.
C22_PointerUpNormalizes ==
  last.op = "pointerup"
    => /\ cur.start % cs = 0 /\ cur.end % cs = 0
       /\ cur.start <= last.pre.start /\ last.pre.end <= cur.end
       /\ IF snapFloor(last.pre.start, cs) # snapFloor(last.pre.end, cs)
          THEN /\ cur.start = snapFloor(last.pre.start, cs)
               /\ cur.end = snapCeil(last.pre.end, cs)
               /\ (last.pre.anchor < last.pre.focus) = (cur.anchor < cur.focus)
          ELSE cur.end = cur.start + cs

\* The panel that did not handle the step's event.
OtherPanel(p) == IF p = "hex" THEN "ascii" ELSE "hex"

\* C23: the panels have independent Selections: a key press, pointer-up,
\* insert, delete or paste handled by one panel leaves the Selection the
\* other panel reads as it was before.
C23_PanelsIndependent ==
  [][last'.op \in {"keydown", "pointerup", "beforeinput", "paste"}
       => getSelectionOf(OtherPanel(last'.panel), sel')
            = getSelectionOf(OtherPanel(last'.panel), sel)]_vars

\* The last event was a key press or an input outside the recognized set:
\* a key other than the four arrows, an input type other than insertText and
\* deleteContentBackward.
OtherKey == last.op = "keydown" /\ last.code \notin ArrowCodes
OtherInput ==
  last.op = "beforeinput" /\ last.code \notin {"insertText", "deleteContentBackward"}

\* The handler of the last event did nothing: no updateByte call, no select
\* call, the Selection as it was.
NotActedOn == last.calls = <<>> /\ ~last.selected /\ cur = last.pre

\* C24 as claimed: a key code or input type outside the recognized set is
\* neither default-prevented nor acted on.
C24_OnlyRecognizedSuppressed ==
  (OtherKey \/ OtherInput) => (~last.prevented /\ NotActedOn)

\* C24 amended: a key other than the four arrows is neither default-prevented
\* nor acted on; every beforeinput event is default-prevented, and one of an
\* input type other than insertText and deleteContentBackward is not acted on.
C24_Suppression ==
  /\ OtherKey => (~last.prevented /\ NotActedOn)
  /\ last.op = "beforeinput" => last.prevented
  /\ OtherInput => NotActedOn

\* C24 witness: an insertParagraph input has been default-prevented and ignored.
C24_Witness ==
  /\ last.op = "beforeinput" /\ last.code = "insertParagraph"
  /\ last.prevented /\ NotActedOn

\* C25: an arrow-key press whose handling changed the Selection has called
\* scrollToSelection in the same handler, after the Selection write.
C25_ChangedSelectionScrolls ==
  (last.op = "keydown" /\ last.code \in ArrowCodes /\ cur # last.pre) => last.scrolled

\* C26: for cell sizes 1 and 2 and every offset v, negative ones included,
\* floorSnap(v, c) <= v <= ceilSnap(v, c), both are multiples of c, and their
\* difference is 0 when v is a multiple of c and c otherwise.
C26_SnapBrackets ==
  last.op = "snap"
    => /\ last.floor <= last.value /\ last.value <= last.ceil
       /\ last.floor % last.cell = 0 /\ last.ceil % last.cell = 0
       /\ last.ceil - last.floor = IF last.value % last.cell = 0 THEN 0 ELSE last.cell

\* C26 witness: a negative odd offset snapped with cell size 2.
C26_Witness ==
  /\ last.op = "snap" /\ last.cell = 2 /\ last.value = -3
  /\ last.floor = -4 /\ last.ceil = -2

\* The first of the N leaves of cellSize characters whose cumulative length
\* reaches k.
FirstLeaf(k) ==
  CHOOSE i \in 0 .. Length - 1 :
    /\ (i + 1) * cs >= k
    /\ \A j \in 0 .. i - 1 : (j + 1) * cs < k

\* C27: for 0 <= k <= N * cellSize the mapper returns the first leaf whose
\* cumulative length is >= k and the in-leaf offset k - (cumulative -
\* leafLength), which lies in 0 .. leafLength and maps back to k; for
\* k > N * cellSize it fails with NotFound.
C27_MapperFirstLeaf ==
  last.op = "locate"
    => /\ (0 <= last.index /\ last.index <= Total)
            => /\ last.result.found
               /\ last.result.node = FirstLeaf(last.index)
               /\ last.result.offset = last.index - ((last.result.node + 1) * cs - cs)
               /\ last.result.offset \in 0 .. cs
               /\ last.result.node * cs + last.result.offset = last.index
       /\ last.index > Total => ~last.result.found

\* C27 witness: the last offset of a hex text of several leaves has been
\* mapped to the end of the last leaf.
C27_Witness ==
  /\ last.op = "locate" /\ last.panel = "hex" /\ Length >= 2
  /\ last.index = Total /\ last.result.found
  /\ last.result.node = Length - 1 /\ last.result.offset = 2

\* The mapper was asked for an offset exactly between two leaves:
\* k = i * cellSize with 0 < i < N.
OnLeafBoundary ==
  /\ last.op = "locate"
  /\ last.index % cs = 0
  /\ 0 < last.index \div cs /\ last.index \div cs < Length

\* C28 as claimed: an offset on the boundary between two leaves resolves to
\* the start of the next leaf (leaf i, in-leaf offset 0).
C28_BoundaryNextLeaf ==
  OnLeafBoundary
    => /\ last.result.found
       /\ last.result.node = last.index \div cs
       /\ last.result.offset = 0

\* C28 amended: an offset on the boundary between two leaves resolves to the
\* end of the previous leaf (leaf i - 1, in-leaf offset cellSize).
C28_BoundaryPreviousLeaf ==
  OnLeafBoundary
    => /\ last.result.found
       /\ last.result.node = last.index \div cs - 1
       /\ last.result.offset = cs

\* C28 witness: offset 2 of a hex text of two or more leaves has been mapped
\* to the end of leaf 0.
C28_Witness ==
  /\ OnLeafBoundary /\ last.panel = "hex" /\ last.index = 2
  /\ last.result.node = 0 /\ last.result.offset = 2

\* The last event was Shift+ArrowUp or Shift+ArrowDown on a cell-aligned
\* selection, with its target t inside the text.
VerticalExtend ==
  /\ last.op = "keydown" /\ last.code \in {"ArrowUp", "ArrowDown"} /\ last.shiftKey
  /\ Aligned(last.pre) /\ ~OutOfRange(t)

\* The anchor lies strictly between the old focus and the target.
AnchorBetween == Between(last.pre.anchor, last.pre.focus, t)

\* The press has inverted the roles: a forward selection has become a
\* backward one or a backward one a forward one.
Inverted ==
  \/ last.pre.anchor < last.pre.focus /\ cur.anchor > cur.focus
  \/ last.pre.anchor > last.pre.focus /\ cur.anchor < cur.focus

\* C29: Shift+ArrowUp / Shift+ArrowDown (on a cell-aligned selection, with
\* its target t = snapFloor(focus, cellSize) + d * 16 * cellSize inside the
\* text) inverts the anchor/focus roles if and only if the anchor lies
\* strictly between the old focus and t; otherwise the anchor is held and the
\* focus becomes t.
C29_VerticalFlipIffBetween ==
  VerticalExtend
    => /\ Inverted <=> AnchorBetween
       /\ ~AnchorBetween => (cur.anchor = last.pre.anchor /\ cur.focus = t)

\* ---------------------------------------- the panels as views of one buffer
\* The step is a delete, a copy or a paste on a cell-aligned selection, that
\* is on the byte range [a, b) with a = start / cellSize, b = end / cellSize.
RangeStep ==
  /\ \/ last'.op \in {"copy", "paste"}
     \/ DeleteStep
  /\ last'.pre.start % cellSize(last'.panel) = 0
  /\ last'.pre.end % cellSize(last'.panel) = 0

RangeOp == IF last'.op = "beforeinput" THEN "delete" ELSE last'.op

\* What an operation on the byte range [a, b) of buffer arr with clipboard
\* text clip leaves, told in bytes, with no reference to a panel: the buffer,
\* the clipboard text and the byte range selected.
ByteView(op, arr, clip, a, b) ==
  CASE op = "delete" ->
         [array |-> [i \in 1 .. Len(arr) |-> IF a <= i - 1 /\ i - 1 < b THEN 0 ELSE arr[i]],
          clipboard |-> clip, start |-> a, end |-> b]
    [] op = "copy" ->
         [array |-> arr, clipboard |-> JSONstringify(Bytes(arr, a, b)), start |-> a, end |-> b]
    [] OTHER ->
         IF ~(JSONparse(clip).ok /\ JSONparse(clip).isArray)
         THEN [array |-> arr, clipboard |-> clip, start |-> a, end |-> b]
         ELSE [array |-> [i \in 1 .. Len(arr) |->
                            IF a <= i - 1 /\ i - 1 < a + Len(JSONparse(clip).items)
                            THEN JSONparse(clip).items[i - a] ELSE arr[i]],
               clipboard |-> clip,
               start |-> a,
               end |-> IF a + Len(JSONparse(clip).items) <= Len(arr)
                       THEN a + Len(JSONparse(clip).items) ELSE a]

\* The byte view of the step taken.
StepView ==
  ByteView(RangeOp, array, clipboard,
           last'.pre.start \div cellSize(last'.panel),
           last'.pre.end \div cellSize(last'.panel))

\* C30: the panels are equivalent views of one buffer: a delete, copy or
\* paste of a byte range [a, b) leaves the same buffer, the same clipboard
\* payload and a Selection on the same byte range whether it is done in the
\* hex panel on [2a, 2b) or in the ascii panel on [a, b): in either panel
\* the outcome is the byte view of the operation, scaled by the cell size.
C30_PanelsEquivalent ==
  [][RangeStep
       => /\ array' = StepView.array
          /\ clipboard' = StepView.clipboard
          /\ cur'.start = StepView.start * cellSize(last'.panel)
          /\ cur'.end = StepView.end * cellSize(last'.panel)]_vars

\* C30 witness: the bytes 0xA5, 0x00 copied before have been pasted in the
\* hex panel over the byte range that starts at byte 1.
C30_Witness ==
  /\ last.op = "paste" /\ last.panel = "hex" /\ last.err = "none"
  /\ clipboard = <<91, 49, 54, 53, 44, 48, 93>>
  /\ last.pre.start = 2 /\ last.pre.end % 2 = 0
  /\ Len(last.calls) = 2 /\ last.calls[1].index = 1
  /\ cur.start = 2 /\ cur.end = 6

\* ------------------------------------------- properties of a typing run
\* The number of bytes the run has typed in full, and whether it stands
\* between two bytes.
TypedBytes == Len(typed.chars) \div cellSize(typed.panel)
BetweenBytes == Len(typed.chars) % cellSize(typed.panel) = 0

\* The value of a hex digit given by its character code.
DigitValue(c) == IF c <= 57 THEN c - 48 ELSE IF c >= 97 THEN c - 87 ELSE c - 55

\* The byte the run's characters make of byte typed.byte + k.
TypedByte(k) ==
  IF typed.panel = "hex"
  THEN 16 * DigitValue(typed.chars[2 * k + 1]) + DigitValue(typed.chars[2 * k + 2])
  ELSE typed.chars[k + 1]

\* C31: typing fills consecutive bytes in order: after a run from the whole
\* cell of byte i has typed n >= 1 whole bytes (2n hex digits in the hex
\* panel, n printable characters in the ascii panel) with i + n < N, bytes
\* i .. i+n-1 hold the typed values in order, every other byte is as it was
\* before the run, and the whole cell of byte i + n is selected.
C31_TypingFillsInOrder ==
  (typed.panel \in Panels /\ BetweenBytes /\ TypedBytes >= 1
     /\ typed.byte + TypedBytes < Length)
    => /\ \A k \in 0 .. TypedBytes - 1 : array[typed.byte + k + 1] = TypedByte(k)
       /\ \A j \in 0 .. Length - 1 :
            (j < typed.byte \/ j >= typed.byte + TypedBytes)
              => array[j + 1] = typed.before[j + 1]
       /\ Len(array) = Len(typed.before)
       /\ sel.panel = typed.panel
       /\ cur.start = (typed.byte + TypedBytes) * cellSize(typed.panel)
       /\ cur.end = (typed.byte + TypedBytes + 1) * cellSize(typed.panel)

\* C31 witness: "C55C" typed into the hex panel from the cell of byte 0 has
\* made bytes 0 and 1 0xC5 and 0x5C and selected the cell of byte 2.
C31_Witness ==
  /\ typed.panel = "hex" /\ typed.byte = 0 /\ typed.chars = <<67, 53, 53, 67>>
  /\ array[1] = 197 /\ array[2] = 92 /\ array[3] = typed.before[3]
  /\ cur.start = 4 /\ cur.end = 6

\* ------------------------------------- properties of extending moves
\* The last event was an extending arrow press on a cell-aligned, non-empty
\* Selection.
ExtendPress ==
  /\ last.op = "keydown" /\ last.code \in ArrowCodes /\ last.shiftKey
  /\ Aligned(last.pre) /\ last.pre.start < last.pre.end

\* Where the cell at the original anchor starts: the selected cell that
\* touches the anchor.
AnchorCell ==
  IF last.pre.anchor < last.pre.focus THEN last.pre.anchor ELSE last.pre.anchor - cs

\* The Selection is not empty and contains the cell at the original anchor.
KeepsAnchorCell ==
  /\ cur.start < cur.end
  /\ cur.start <= AnchorCell /\ AnchorCell + cs <= cur.end

\* C32 as claimed (for presses whose handler ran to its end): after an
\* extending arrow press on a cell-aligned, non-empty Selection the Selection
\* is still non-empty and still contains the cell at the original anchor.
C32_NeverCollapses ==
  (ExtendPress /\ last.err = "none") => KeepsAnchorCell

\* C32 amended: after an extending arrow press on a cell-aligned, non-empty
\* Selection, whose focus after a crossing lies in 0 .. N * cellSize, the
\* Selection is still non-empty and still contains the cell at the original
\* anchor, except after a vertical press whose target is the anchor itself:
\* that one leaves the Selection collapsed at the anchor.
C32_Extend ==
  (ExtendPress /\ (Crosses => ~OutOfRange(t + d * cs)))
    => IF ~Horizontal /\ t = last.pre.anchor
       THEN cur.anchor = last.pre.anchor /\ cur.focus = last.pre.anchor
       ELSE KeepsAnchorCell

\* C32 witness: Shift+ArrowUp on a forward selection of exactly one row has
\* collapsed it at its anchor.
C32_Witness ==
  /\ ExtendPress /\ ArrowPress("ArrowUp", TRUE)
  /\ last.pre.focus = last.pre.anchor + RowCells * cs
  /\ last.err = "none"
  /\ cur.start = last.pre.anchor /\ cur.end = last.pre.anchor

\* ------------------------------- properties of navigation across panels
\* The ascii Selection over the same cells as the cell-aligned hex Selection s.
AsciiOf(s) ==
  [anchor |-> s.anchor \div HexCellSize, focus |-> s.focus \div HexCellSize,
   start |-> s.start \div HexCellSize, end |-> s.end \div HexCellSize]

\* What the ascii panel's arrow handler does with the press on Selection s.
AsciiArrow(code, shiftKey, s) ==
  CASE code = "ArrowLeft" -> onArrowHorizontal("ascii", shiftKey, s, -1)
    [] code = "ArrowRight" -> onArrowHorizontal("ascii", shiftKey, s, 1)
    [] code = "ArrowUp" -> onArrowVertical("ascii", shiftKey, s, -1)
    [] OTHER -> onArrowVertical("ascii", shiftKey, s, 1)

\* The Selection the ascii panel reads after its handler ended as r on
\* Selection s: the one select has set, or s when none was set.
AsciiAfter(r, s) ==
  IF r.sel.panel = "ascii" THEN getSelectionOf("ascii", r.sel) ELSE s

\* The hex panel's press ended as the ascii panel's press r on s does, with
\* every offset doubled: the same call or no call of select, the same error
\* or none, twice the anchor and the focus.
TwiceAscii(r, s) ==
  /\ cur.anchor = HexCellSize * AsciiAfter(r, s).anchor
  /\ cur.focus = HexCellSize * AsciiAfter(r, s).focus
  /\ last.selected = r.called
  /\ last.err = r.err

\* C33: navigation is scale-invariant between the panels: an arrow press,
\* with or without shift, in the hex panel on the cell-aligned Selection
\* (2 * anchor, 2 * focus) ends with exactly twice the anchor and focus the
\* ascii panel's handler gives for (anchor, focus), and is a no-op exactly
\* when the ascii move is a no-op.
C33_ScaleInvariant ==
  (last.op = "keydown" /\ last.panel = "hex" /\ last.code \in ArrowCodes
     /\ last.pre.anchor % HexCellSize = 0 /\ last.pre.focus % HexCellSize = 0)
    => TwiceAscii(AsciiArrow(last.code, last.shiftKey, AsciiOf(last.pre)),
                  AsciiOf(last.pre))

\* C33 witness: Shift+ArrowLeft on the hex Selection {anchor 2, focus 4} has
\* flipped it to {anchor 4, focus 0}, twice the ascii panel's {anchor 2,
\* focus 0} for {anchor 1, focus 2}.
C33_Witness ==
  /\ ArrowPress("ArrowLeft", TRUE) /\ last.panel = "hex"
  /\ last.pre.anchor = 2 /\ last.pre.focus = 4
  /\ cur.anchor = 4 /\ cur.focus = 0
  /\ getSelectionOf("ascii", onArrowHorizontal("ascii", TRUE, AsciiOf(last.pre), -1).sel).anchor = 2
  /\ getSelectionOf("ascii", onArrowHorizontal("ascii", TRUE, AsciiOf(last.pre), -1).sel).focus = 0

====
